---- MODULE Spec2Model ----
(***************************************************************************)
(* Model of the mikasa.ai agent orchestration loop: the codegen task       *)
(* record of the HTTP route, Agent.execute (planning, preview gate,        *)
(* execution loop), Planner.createPlan, Executor.executeStep and           *)
(* Iterator.retryWithFix.                                                  *)
(***************************************************************************)
EXTENDS Integers, Sequences, FiniteSets, TLC

\* ------------------------------------------------------------------ bounds
\* Longest plan the completion API returns in the model.
MaxSteps == 2
\* retryWithFix calls per step id made by the Iterator harness.
MaxCalls == 4

\* ------------------------------------------------------- program constants
\* appConfig.agent.maxRetries and the Iterator constructor default.
DefaultMaxRetries == 3
\* appConfig.agent.safety.allowShellCommands of the default configuration.
DefaultAllowShellCommands == TRUE
\* options?.maxIterations || 10
DefaultMaxIterations == 10

\* ---------------------------------------------------------------- domains
\* The tools the Agent constructor registers.
Tools == {"file", "command", "git"}
\* Tool names the planning model may put into a step ("nope" is no tool).
PlanTools == {"file", "nope"}
\* Opaque parameter maps: p1 comes from the plan and p2 from a remediation;
\* "pr" is the git tool's {action: 'pr', params: {title, body}}.
Params == {"p1", "p2", "pr"}
\* What the environment makes of one tool.execute call.
ToolOutcomes == {"ok", "fail", "throw"}
\* maxIterations a request may carry; 0 stands for an absent (falsy) option.
IterationOptions == {0, 1}
\* maxRetries values of the loaded configuration.
RetryChoices == {0, DefaultMaxRetries}

NoStep == <<>>
Absent == <<>>
Some(x) == <<x>>

VARIABLES
  task,           \* the record of the route's tasks map (one task)
  runKind,        \* "none" | "background" | "apply": who awaits the current run
  config,         \* AgentConfig of the current Agent
  maxRetries,     \* Iterator.maxRetries
  pc,             \* suspension point of the current Agent.execute
  plan,           \* the plan object of the current run
  i,              \* loop index of Agent.execute
  failedResult,   \* the failed result handed to retryWithFix
  modifiedStep,   \* the step retryWithFix is about to execute
  context,        \* AgentContext of the current run
  completedSteps, \* local of Agent.execute
  failedSteps,    \* local of Agent.execute
  retryCount,     \* Iterator.retryCount (Map<stepId, number>)
  outcome,        \* how the current Agent.execute ended
  execCalls,      \* history: the executeStep calls of the current Executor
  llmCalls,       \* history: completion calls of the current run, by purpose
  itCalls,        \* history: retryWithFix calls per step id since its reset
  unit,           \* the last direct call of an Executor or Iterator method
  allowShellCommands, \* appConfig.agent.safety.allowShellCommands
  pair,           \* a second task: which invocation is running, and the
                  \* frame of the one that is suspended
  jobs,           \* the enqueueJob calls the routes have made so far
  cli,            \* the CLI process: its command, where it waits, what it
                  \* was answered and what it has reported
  queue           \* the JobQueue instance: its jobs, its processing flag,
                  \* the callbacks it has scheduled

vars == <<task, runKind, config, maxRetries, pc, plan, i, failedResult,
          modifiedStep, context, completedSteps, failedSteps, retryCount,
          outcome, execCalls, llmCalls, itCalls, unit, allowShellCommands, pair,
          jobs, cli, queue>>

\* ------------------------------------------------------------ Map helpers
MapGet(m, k) == IF k \in DOMAIN m THEN m[k] ELSE 0
MapSet(m, k, v) == [x \in (DOMAIN m) \cup {k} |-> IF x = k THEN v ELSE m[x]]
MapDelete(m, k) == [x \in (DOMAIN m) \ {k} |-> m[x]]
EmptyMap == [x \in {} |-> 0]

\* --------------------------------------------------------------- context
createContext == [logs |-> <<>>, filesModified |-> <<>>, commandsRun |-> <<>>]

\* addLog as it would be if the log kept its latest entry only.
addLog_Latest(ctx, level, msg, step) ==
  [ctx EXCEPT !.logs = <<[level |-> level, msg |-> msg, step |-> step]>>]

addLog(ctx, level, msg, step) ==
  [ctx EXCEPT !.logs = Append(@, [level |-> level, msg |-> msg, step |-> step])]

Includes(seq, x) == \E k \in 1 .. Len(seq) : seq[k] = x

\* addFileModified as it would be without the includes test.
addFileModified_NoCheck(ctx, f) == [ctx EXCEPT !.filesModified = Append(@, f)]

addFileModified(ctx, f) ==
  IF Includes(ctx.filesModified, f) THEN ctx
  ELSE [ctx EXCEPT !.filesModified = Append(@, f)]

\* addCommandRun as it would be if it kept only the latest record.
addCommandRun_Replace(ctx, c) == [ctx EXCEPT !.commandsRun = <<c>>]

addCommandRun(ctx, c) == [ctx EXCEPT !.commandsRun = Append(@, c)]

RECURSIVE addFilesModified(_, _)
addFilesModified(ctx, files) ==
  IF files = <<>> THEN ctx
  ELSE addFilesModified(addFileModified(ctx, Head(files)), Tail(files))


\* ------------------------------------------- completion API output parsing
\* A completion text is modelled by its three parts: what precedes the body,
\* the body, and what follows it. fence-json and fence are the markdown code
\* fence with and without the json tag, prose is text without braces and
\* prose-brace is text that holds a closing brace.
Prefixes == {"", "fence-json", "fence", "prose"}
Suffixes == {"", "fence", "prose", "prose-brace"}
\* The prefix and suffix pairs the model feeds in.
Wrappers == {<<"", "">>, <<"fence-json", "fence">>, <<"fence", "fence">>,
             <<"fence", "">>, <<"prose", "prose">>, <<"", "prose-brace">>}
LLMThrows == [prefix |-> "", body |-> [kind |-> "throw", steps |-> <<>>, modifiedParams |-> "undefined"], suffix |-> ""]

JsonPlan(steps) == [kind |-> "plan", steps |-> steps, modifiedParams |-> "undefined"]
JsonFix(mp) == [kind |-> "fix", steps |-> <<>>, modifiedParams |-> mp]
JsonOther == [kind |-> "other", steps |-> <<>>, modifiedParams |-> "undefined"]
JsonNull == [kind |-> "json-null", steps |-> <<>>, modifiedParams |-> "undefined"]
BrokenJson == [kind |-> "broken", steps |-> <<>>, modifiedParams |-> "undefined"]
PlainText == [kind |-> "text", steps |-> <<>>, modifiedParams |-> "undefined"]

IsJson(body) == body.kind \in {"plan", "fix", "other", "json-null"}
HasBraces(body) == body.kind \in {"plan", "fix", "other", "broken"}

\* trim, then strip a leading json fence, a leading fence and a trailing fence.
StripFences(t) ==
  LET a == IF t.prefix = "fence-json" THEN [t EXCEPT !.prefix = ""] ELSE t
      b == IF a.prefix = "fence" THEN [a EXCEPT !.prefix = ""] ELSE a
  IN IF b.suffix = "fence" THEN [b EXCEPT !.suffix = ""] ELSE b

\* JSON.parse of a text: Absent when it throws.
JsonParse(t) ==
  IF t.prefix = "" /\ t.suffix = "" /\ IsJson(t.body) THEN Some(t.body) ELSE Absent

\* The regular-expression fallback: from the first opening brace to the last
\* closing brace of the text.
BraceMatch(t) ==
  IF ~HasBraces(t.body) THEN Absent
  ELSE Some([prefix |-> "", body |-> t.body,
             suffix |-> IF t.suffix = "prose-brace" THEN "prose-brace" ELSE ""])

\* The parse shared by parsePlanResponse and parseFixResponse: strict parse of
\* the fence-stripped text, then the brace-match fallback; Absent on failure.
ParseModelOutput(t) ==
  LET strict == JsonParse(StripFences(t))
  IN IF strict # Absent THEN strict
     ELSE LET m == BraceMatch(t)
          IN IF m = Absent THEN Absent ELSE JsonParse(m[1])

parsePlanResponse(t) == ParseModelOutput(t)
parseFixResponse(t) == ParseModelOutput(t)

\* ---------------------------------------------------------------- Planner
\* step-<index>-<first 8 characters of a uuidv4>
generateStepId(index, uuid) == <<index, uuid>>

\* The uuidv4 values of a createPlan call are fresh: they differ from those of
\* every plan still alive, which are the plan stored on a task by its
\* background run and the plan of its apply run, for each of the two tasks.
FreshUuid(kind) == (IF kind = "apply" THEN 2 ELSE 1) + 2 * (pair.active - 1)

EmptyPlan == [steps |-> <<>>, estimatedSteps |-> 0]

\* The plan as it would be if the steps were put into the reverse order.
BuildPlan_Reversed(planData, uuid) ==
  LET n == Len(planData.steps)
  IN [steps |-> [k \in 1 .. n |->
                   [stepId |-> generateStepId(k - 1, uuid),
                    description |-> "d",
                    tool |-> planData.steps[n + 1 - k].tool,
                    params |-> planData.steps[n + 1 - k].params,
                    dependencies |-> planData.steps[n + 1 - k].dependencies,
                    status |-> "pending"]],
      estimatedSteps |-> n]

\* planData.steps.map(...): the plan built from parsed plan data; uuid stands
\* for the fresh uuidv4 values of this call.
BuildPlan(planData, uuid) ==
  [steps |-> [k \in 1 .. Len(planData.steps) |->
                [stepId |-> generateStepId(k - 1, uuid),
                 description |-> "d",
                 tool |-> planData.steps[k].tool,
                 params |-> planData.steps[k].params,
                 dependencies |-> planData.steps[k].dependencies,
                 status |-> "pending"]],
   estimatedSteps |-> Len(planData.steps)]

\* createPlan as it would be if it swallowed the failure and went on with an
\* empty plan.
createPlan_Swallow(resp, ctx, uuid) ==
  LET parsed == IF resp = LLMThrows THEN Absent ELSE parsePlanResponse(resp)
  IN [ok |-> TRUE,
      plan |-> IF parsed # Absent /\ parsed[1].kind = "plan"
               THEN BuildPlan(parsed[1], uuid) ELSE EmptyPlan,
      context |-> addLog(ctx, "info", "Plan created", NoStep)]

\* Planner.createPlan on the completion resp: [ok, plan, context].
createPlan(resp, ctx, uuid) ==
  LET parsed == IF resp = LLMThrows THEN Absent ELSE parsePlanResponse(resp)
  IN IF parsed # Absent /\ parsed[1].kind = "plan"
     THEN LET p == BuildPlan(parsed[1], uuid)
          IN [ok |-> TRUE, plan |-> p,
              context |-> addLog(ctx, "info", "Plan created", NoStep)]
     ELSE [ok |-> FALSE, plan |-> EmptyPlan,
           context |-> addLog(ctx, "error", "Failed to create plan", NoStep)]

\* ------------------------------------------------------------------ Tools
NoResult == [success |-> FALSE, error |-> "", files |-> <<>>, command |-> Absent]

\* tool.execute(params) when it returns (out is "ok" or "fail").
ToolExecute(tool, params, out) ==
  CASE tool = "file" ->
         IF out = "ok"
         THEN [success |-> TRUE, error |-> "", files |-> <<params>>, command |-> Absent]
         ELSE [success |-> FALSE, error |-> "tool error", files |-> <<>>, command |-> Absent]
    [] tool = "command" ->
         IF ~allowShellCommands
         THEN [success |-> FALSE, error |-> "Shell command execution is disabled",
               files |-> <<>>, command |-> Absent]
         ELSE [success |-> (out = "ok"), error |-> IF out = "ok" THEN "" ELSE "tool error",
               files |-> <<>>, command |-> Some(params)]
    [] OTHER ->
         [success |-> (out = "ok"), error |-> IF out = "ok" THEN "" ELSE "tool error",
          files |-> <<>>, command |-> Absent]

\* Whether tool.execute(params) hands a command line to child_process.exec:
\* the command tool when it is enabled (execAsync(command)), and the git tool
\* for the pr action (execAsync of a gh command line). A call that throws does
\* so on its parameters, before either.
ShellSpawned(tool, params, out) ==
  /\ out # "throw"
  /\ \/ tool = "command" /\ allowShellCommands
     \/ tool = "git" /\ params = "pr"

\* --------------------------------------------------------------- Executor
findTool(toolName) == toolName \in Tools

\* The outcomes that differ for a step: a tool that is not found is not
\* called, and a disabled command tool returns before it runs anything.
Feasible(step, out) ==
  /\ findTool(step.tool) \/ out = "ok"
  /\ (step.tool = "command" /\ ~allowShellCommands) => out # "fail"

\* The tool-not-found branch of executeStep.
ToolNotFound(ctx, step) ==
  [threw |-> FALSE, ran |-> FALSE,
   result |-> [NoResult EXCEPT !.error = "Tool not found"],
   context |-> addLog(ctx, "error", "Tool not found", step.stepId)]

\* executeStep as it would be without its catch block.
CatchToolException_Rethrow(ctx, step) ==
  [threw |-> TRUE, ran |-> TRUE,
   result |-> [NoResult EXCEPT !.error = "tool exception"],
   context |-> ctx]

\* The catch block of executeStep.
CatchToolException(ctx, step) ==
  [threw |-> FALSE, ran |-> TRUE,
   result |-> [NoResult EXCEPT !.error = "Tool execution failed"],
   context |-> addLog(ctx, "error", "Tool execution failed", step.stepId)]

\* The bookkeeping as it would be if side effects were tracked whatever the
\* result's success flag says.
RecordToolResult_Always(ctx, step, r) ==
  LET c1 == addLog(ctx, IF r.success THEN "info" ELSE "error",
                   IF r.success THEN "Step completed" ELSE "Step failed", step.stepId)
      c2 == addFilesModified(c1, r.files)
  IN IF r.command # Absent THEN addCommandRun(c2, r.command[1]) ELSE c2

\* The bookkeeping of a returned tool result.
RecordToolResult(ctx, step, r) ==
  IF r.success
  THEN LET c1 == addLog(ctx, "info", "Step completed", step.stepId)
           c2 == addFilesModified(c1, r.files)
       IN IF r.command # Absent THEN addCommandRun(c2, r.command[1]) ELSE c2
  ELSE addLog(ctx, "error", "Step failed", step.stepId)

\* Executor.executeStep with the environment's outcome for the tool call.
executeStep(step, ctx, out) ==
  LET c1 == addLog(ctx, "info", "Executing", step.stepId)
  IN IF ~findTool(step.tool) THEN ToolNotFound(c1, step)
     ELSE IF out = "throw" THEN CatchToolException(c1, step)
     ELSE LET r == ToolExecute(step.tool, step.params, out)
          IN [threw |-> FALSE, ran |-> TRUE, result |-> r,
              context |-> RecordToolResult(c1, step, r)]

\* The history entry of one executeStep call.
ExecCall(step, er, retry, out) ==
  [stepId |-> step.stepId, tool |-> step.tool, params |-> step.params,
   description |-> step.description, retry |-> retry, ran |-> er.ran,
   toolOut |-> IF er.ran THEN out ELSE "not run",
   shell |-> er.ran /\ ShellSpawned(step.tool, step.params, out),
   threw |-> er.threw, success |-> (~er.threw /\ er.result.success),
   error |-> er.result.error]

\* --------------------------------------------------------------- Iterator
\* canRetry as it would be with an off-by-one comparison.
canRetry_Inclusive(rc, stepId, maxR) == MapGet(rc, stepId) <= maxR

canRetry(rc, stepId, maxR) == MapGet(rc, stepId) < maxR

\* The entry of retryWithFix as it would be if it set the count to one.
RetryBegin_SetOne(rc, ctx, stepId) ==
  [retryCount |-> MapSet(rc, stepId, 1),
   context |-> addLog(ctx, "info", "Attempting to fix failed step", stepId)]

\* retryWithFix up to its completion call: count the attempt, log it.
RetryBegin(rc, ctx, stepId) ==
  [retryCount |-> MapSet(rc, stepId, MapGet(rc, stepId) + 1),
   context |-> addLog(ctx, "info", "Attempting to fix failed step", stepId)]

\* getFixStrategy as it would be without the test for modifiedParams null.
getFixStrategy_NoNullCheck(resp, ctx, stepId) ==
  IF resp = LLMThrows
  THEN [fix |-> Absent,
        context |-> addLog(ctx, "error", "Failed to get fix strategy", stepId)]
  ELSE LET fix == parseFixResponse(resp)
       IN IF fix = Absent \/ fix[1].kind = "json-null"
          THEN [fix |-> Absent, context |-> ctx]
          ELSE [fix |-> fix, context |-> ctx]

\* Iterator.getFixStrategy on the completion resp: [fix, context].
getFixStrategy(resp, ctx, stepId) ==
  IF resp = LLMThrows
  THEN [fix |-> Absent,
        context |-> addLog(ctx, "error", "Failed to get fix strategy", stepId)]
  ELSE LET fix == parseFixResponse(resp)
       IN IF fix = Absent \/ fix[1].kind = "json-null" \/ fix[1].modifiedParams = "null"
          THEN [fix |-> Absent, context |-> ctx]
          ELSE [fix |-> fix, context |-> ctx]

\* The modified step as it would be if the model-supplied params were dropped.
BuildModifiedStep_SameParams(step, fix) ==
  [step EXCEPT !.description = "d (retry with fix)"]

\* The caller's step object once modifiedStep is built: the object literal
\* with the spread is a new object, the step it copies from stays as it is.
StepAfterSpread(step, ms) == step

\* fixStrategy.modifiedParams || step.params, and the description suffix.
BuildModifiedStep(step, fix) ==
  [step EXCEPT !.params = IF fix.modifiedParams = "undefined" THEN step.params
                          ELSE fix.modifiedParams,
               !.description = "d (retry with fix)"]

\* The end of retryWithFix as it would be if a failed re-execution were
\* answered with the original failed result.
RetryFinish_Original(er, failed, stepId) ==
  [result |-> IF ~er.threw /\ er.result.success THEN er.result ELSE failed,
   context |-> er.context]

\* The end of retryWithFix: the re-execution's result, or the original failed
\* result when the re-execution threw: [result, context].
RetryFinish(er, failed, stepId) ==
  IF er.threw
  THEN [result |-> failed,
        context |-> addLog(er.context, "error", "Fix attempt failed", stepId)]
  ELSE [result |-> er.result, context |-> er.context]


\* Iterator.retryWithFix as one call, both completions of its awaits given:
\* [retryCount, result, context, calls, llm, step]; step is the caller's step
\* object after the call.
retryWithFix(rc, step, failed, ctx, resp, out) ==
  LET rb == RetryBegin(rc, ctx, step.stepId)
      gf == getFixStrategy(resp, rb.context, step.stepId)
  IN IF gf.fix = Absent
     THEN [retryCount |-> rb.retryCount, result |-> failed, context |-> gf.context,
           calls |-> <<>>, llm |-> 1, step |-> step]
     ELSE LET ms == BuildModifiedStep(step, gf.fix[1])
              er == executeStep(ms, addLog(gf.context, "info", "Fix strategy", step.stepId), out)
              rf == RetryFinish(er, failed, step.stepId)
          IN [retryCount |-> rb.retryCount, result |-> rf.result, context |-> rf.context,
              calls |-> <<ExecCall(ms, er, TRUE, out)>>, llm |-> 1,
              step |-> StepAfterSpread(step, ms)]

\* ------------------------------------------------- completion API outputs
RECURSIVE SeqsUpTo(_, _)
SeqsUpTo(S, n) ==
  IF n = 0 THEN {<<>>}
  ELSE LET shorter == SeqsUpTo(S, n - 1)
       IN shorter \cup {Append(q, x) : q \in {r \in shorter : Len(r) = n - 1}, x \in S}

\* The step objects a planning completion may hold.
RawSteps == [tool : PlanTools, params : {"p1"}, dependencies : {<<>>}]

Texts(bodies) == {[prefix |-> w[1], body |-> b, suffix |-> w[2]] : w \in Wrappers, b \in bodies}

\* The steps q with dependencies that point against the list order: every
\* step but the last names the step after it (by its index).
WithForwardDeps(q) ==
  [k \in 1 .. Len(q) |->
     [q[k] EXCEPT !.dependencies = IF k < Len(q) THEN <<k>> ELSE <<>>]]
\* Plans of file steps with such dependencies.
ForwardDepPlans(n) ==
  {JsonPlan(WithForwardDeps(q)) : q \in SeqsUpTo({r \in RawSteps : r.tool = "file"}, n)}

PlanResponses ==
  {LLMThrows} \cup
  Texts({JsonPlan(q) : q \in SeqsUpTo(RawSteps, MaxSteps)}
        \cup ForwardDepPlans(MaxSteps)
        \cup {JsonOther, JsonNull, BrokenJson, PlainText})

\* The remediation completions fed to the Iterator on its own.
FixResponses ==
  {LLMThrows} \cup
  Texts({JsonFix(mp) : mp \in {"p2", "null", "undefined"}}
        \cup {JsonOther, JsonNull, BrokenJson, PlainText})

\* The remediation completions fed to a run of the Agent: the ones above
\* without those that carry no modifiedParams field.
AgentFixResponses ==
  {r \in FixResponses : r.body.kind = "fix" => r.body.modifiedParams # "undefined"}
     \ Texts({JsonOther})

\* What a completion is, whatever surrounds its body: "throw" for a failed
\* call, the modifiedParams of a remediation object, else the kind of the body.
RespKind(resp) == IF resp.body.kind = "fix" THEN resp.body.modifiedParams ELSE resp.body.kind

\* Plan completions of the runs that are started without the preview gate.
MaxRunSteps == 3
RunPlanResponses ==
  {LLMThrows} \cup
  Texts({JsonPlan(q) : q \in SeqsUpTo(RawSteps, MaxRunSteps)}
        \cup ForwardDepPlans(MaxRunSteps)
        \cup {JsonOther, JsonNull, BrokenJson, PlainText})

\* ------------------------------------------------------------------ Agent
NoRet == [currentStep |-> 0, completedSteps |-> <<>>, failedSteps |-> <<>>,
          logs |-> <<>>, filesModified |-> <<>>, commandsRun |-> <<>>,
          plan |-> Absent]
NoLLMCalls == [plan |-> 0, fix |-> 0, planBody |-> "", fixBody |-> "", planSteps |-> <<>>]
NoOutcome == [kind |-> "none", error |-> "", ret |-> NoRet]
NoModStep == [stepId |-> NoStep, description |-> "", tool |-> "", params |-> "",
              dependencies |-> <<>>, status |-> "pending"]
NoUnit == [op |-> "none", step |-> NoModStep, failed |-> NoResult, result |-> NoResult,
           resp |-> "", before |-> createContext, after |-> NoModStep]

\* The Agent's configuration as it would be if the route never set the
\* preview mode.
AgentConfig_NoPreview(opts, preview) ==
  [previewMode |-> FALSE, autonomous |-> opts.autonomous,
   maxIterations |-> IF opts.maxIterations = 0 THEN DefaultMaxIterations
                     ELSE opts.maxIterations]

\* options?.previewMode !== false, options?.autonomous || false,
\* options?.maxIterations || 10
AgentConfig(opts, preview) ==
  [previewMode |-> preview, autonomous |-> opts.autonomous,
   maxIterations |-> IF opts.maxIterations = 0 THEN DefaultMaxIterations
                     ELSE opts.maxIterations]

\* The preview gate as it would be if it were never taken.
PreviewGate_Off(cfg) == FALSE

\* if (this.config.previewMode)
PreviewGate(cfg) == cfg.previewMode

\* The retry test as it would be without the call of canRetry.
ShouldRetry_AnyFailure(result, rc, stepId, maxR) == ~result.success

\* if (!result.success && this.iterator.canRetry(step.stepId))
ShouldRetry(result, rc, stepId, maxR) == ~result.success /\ canRetry(rc, stepId, maxR)

\* The failure policy as it would be if no mode aborted, and if every mode did.
AbortOnFailure_Never(cfg) == FALSE
AbortOnFailure_Always(cfg) == TRUE

\* if (!this.config.autonomous) throw
AbortOnFailure(cfg) == ~cfg.autonomous

\* if (i >= maxIterations) throw
CeilingExceeded(idx, maxIt) == idx >= maxIt

\* The locals of the running Agent.execute as one record.
Cur == [pc |-> pc, plan |-> plan, i |-> i, context |-> context,
        completedSteps |-> completedSteps, failedSteps |-> failedSteps,
        outcome |-> outcome]

\* The catch block of Agent.execute: log and rethrow.
Throw(st, msg) ==
  [st EXCEPT !.pc = "idle",
             !.context = addLog(st.context, "error", "Agent execution failed", NoStep),
             !.outcome = [kind |-> "thrown", error |-> msg, ret |-> NoRet]]

\* The preview return of Agent.execute.
ReturnPreview(st) ==
  LET c == addLog(st.context, "info", "Preview mode: returning plan without execution", NoStep)
  IN [st EXCEPT !.pc = "idle", !.context = c,
                !.outcome = [kind |-> "returned", error |-> "",
                             ret |-> [NoRet EXCEPT !.logs = c.logs,
                                                   !.plan = Some(st.plan)]]]

\* The end of the loop as it would be if the final result carried the plan.
EndOfLoop_WithPlan(st) ==
  IF Len(st.failedSteps) > 0 /\ ~config.autonomous
  THEN Throw(st, "step(s) failed")
  ELSE LET c == addLog(st.context, "info", "Agent execution completed", NoStep)
       IN [st EXCEPT !.pc = "idle", !.context = c,
                     !.outcome = [kind |-> "returned", error |-> "",
                                  ret |-> [currentStep |-> Len(st.plan.steps),
                                           completedSteps |-> st.completedSteps,
                                           failedSteps |-> st.failedSteps,
                                           logs |-> c.logs,
                                           filesModified |-> c.filesModified,
                                           commandsRun |-> c.commandsRun,
                                           plan |-> Some(st.plan)]]]

\* The end of the loop as it would be if the function did not come back from
\* there.
EndOfLoop_Hang(st) == [st EXCEPT !.pc = "after-loop"]

\* After the loop: the final check and the return of Agent.execute.
EndOfLoop(st) ==
  IF Len(st.failedSteps) > 0 /\ ~config.autonomous
  THEN Throw(st, "step(s) failed")
  ELSE LET c == addLog(st.context, "info", "Agent execution completed", NoStep)
       IN [st EXCEPT !.pc = "idle", !.context = c,
                     !.outcome = [kind |-> "returned", error |-> "",
                                  ret |-> [currentStep |-> Len(st.plan.steps),
                                           completedSteps |-> st.completedSteps,
                                           failedSteps |-> st.failedSteps,
                                           logs |-> c.logs,
                                           filesModified |-> c.filesModified,
                                           commandsRun |-> c.commandsRun,
                                           plan |-> Absent]]]

\* i++ of the loop header.
NextIndex_Skip(idx) == idx + 2
NextIndex(idx) == idx + 1

\* The start of the loop iteration for step st.i as it would be without the
\* in-progress mark.
BeginStep_NoMark(st) ==
  [st EXCEPT !.pc = "step",
             !.context = addLog(@, "info", "Executing step", st.plan.steps[st.i + 1].stepId)]

\* The start of the loop iteration for step st.i, up to the executeStep call:
\* the log entry and the in-progress mark.
BeginStep(st) ==
  [st EXCEPT !.pc = "step",
             !.context = addLog(@, "info", "Executing step", st.plan.steps[st.i + 1].stepId),
             !.plan.steps[st.i + 1].status = "in-progress"]

\* The rest of one loop iteration as it would be if a failed step were put on
\* the failed list without its status being set.
FinishStep_NoFailedStatus(st, r) ==
  LET k == st.i + 1
      step == st.plan.steps[k]
      rec == IF r.success
             THEN [st EXCEPT !.plan.steps[k].status = "completed",
                             !.completedSteps = Append(@, step.stepId),
                             !.context = addLog(st.context, "info", "Step completed", step.stepId)]
             ELSE [st EXCEPT !.failedSteps = Append(@, step.stepId),
                             !.context = addLog(st.context, "error", "Step failed after retries", step.stepId)]
  IN IF ~r.success /\ AbortOnFailure(config) THEN Throw(rec, "Step failed")
     ELSE IF CeilingExceeded(st.i, config.maxIterations)
          THEN Throw(rec, "Maximum iterations exceeded")
     ELSE IF NextIndex(st.i) < Len(st.plan.steps)
          THEN BeginStep([rec EXCEPT !.i = NextIndex(st.i)])
     ELSE EndOfLoop(rec)

\* The rest of one loop iteration once the step's final result r is known.
FinishStep(st, r) ==
  LET k == st.i + 1
      step == st.plan.steps[k]
      rec == IF r.success
             THEN [st EXCEPT !.plan.steps[k].status = "completed",
                             !.completedSteps = Append(@, step.stepId),
                             !.context = addLog(st.context, "info", "Step completed", step.stepId)]
             ELSE [st EXCEPT !.plan.steps[k].status = "failed",
                             !.failedSteps = Append(@, step.stepId),
                             !.context = addLog(st.context, "error", "Step failed after retries", step.stepId)]
  IN IF ~r.success /\ AbortOnFailure(config) THEN Throw(rec, "Step failed")
     ELSE IF CeilingExceeded(st.i, config.maxIterations)
          THEN Throw(rec, "Maximum iterations exceeded")
     ELSE IF NextIndex(st.i) < Len(st.plan.steps)
          THEN BeginStep([rec EXCEPT !.i = NextIndex(st.i)])
     ELSE EndOfLoop(rec)

\* What the awaiting route function does with the ended run.
\* task.plan stands for task.result.plan, and task.result for the summary and
\* the filesModified of task.result.
TaskAfter(t, kind, out) ==
  CASE out.kind = "returned" /\ kind = "background" ->
         [t EXCEPT !.status = "completed", !.plan = out.ret.plan,
                   !.action = IF out.ret.plan # Absent THEN "Waiting for approval"
                              ELSE "Completed",
                   !.result = Some([filesModified |-> out.ret.filesModified,
                                    summary |-> IF out.ret.plan # Absent
                                                THEN "Plan created"
                                                ELSE "Task completed successfully"])]
    [] out.kind = "returned" /\ kind = "apply" ->
         [t EXCEPT !.status = "completed", !.action = "Changes applied",
                   !.result = Some([filesModified |-> out.ret.filesModified,
                                    summary |-> "Changes applied successfully"])]
    [] out.kind = "thrown" ->
         [t EXCEPT !.status = "failed", !.error = out.error,
                   !.action = IF kind = "apply" THEN "Failed to apply changes"
                              ELSE "Failed"]
    [] OTHER -> t

\* enqueueJob('save-checkpoint', ..) of executeAgentInBackground; the function
\* executeApprovedPlan enqueues nothing.
JobsAfter(q, kind, out) ==
  IF out.kind = "returned" /\ kind = "background"
  THEN Append(q, [type |-> "save-checkpoint",
                  answer |-> [logs |-> out.ret.logs, summary |-> ""],
                  filesModified |-> out.ret.filesModified])
  ELSE q

Commit(st) ==
  /\ pc' = st.pc
  /\ plan' = st.plan
  /\ i' = st.i
  /\ context' = st.context
  /\ completedSteps' = st.completedSteps
  /\ failedSteps' = st.failedSteps
  /\ outcome' = st.outcome
  /\ task' = TaskAfter(task, runKind, st.outcome)
  /\ jobs' = JobsAfter(jobs, runKind, st.outcome)

\* new Agent(cfg) and Agent.execute up to the planning completion call.
StartAgent(kind, cfg) ==
  /\ runKind' = kind
  /\ config' = cfg
  /\ pc' = "planning"
  /\ plan' = EmptyPlan
  /\ i' = 0
  /\ failedResult' = NoResult
  /\ modifiedStep' = NoModStep
  /\ context' = addLog(addLog(addLog(createContext,
                   "info", "Starting agent execution", NoStep),
                   "info", "Phase 1: Planning", NoStep),
                   "info", "Creating execution plan", NoStep)
  /\ completedSteps' = <<>>
  /\ failedSteps' = <<>>
  /\ retryCount' = EmptyMap
  /\ outcome' = NoOutcome
  /\ execCalls' = <<>>
  /\ llmCalls' = NoLLMCalls
  /\ itCalls' = EmptyMap
  /\ UNCHANGED <<maxRetries, unit, allowShellCommands, jobs>>

\* No second task: the first invocation is the one that runs.
NoPair == [active |-> 1, saved |-> Absent, switches |-> 0]

TaskOptions == [previewMode : BOOLEAN, autonomous : BOOLEAN, maxIterations : IterationOptions]
NoOptions == [previewMode |-> TRUE, autonomous |-> FALSE, maxIterations |-> 0]
\* No CLI process.
NoCli == [cmd |-> "none", stage |-> "idle", answer |-> "none", said |-> ""]
\* No task in the tasks map.
NoTask == [status |-> "none", options |-> NoOptions, plan |-> Absent, error |-> "",
           action |-> "", result |-> Absent]

\* new JobQueue(): no job, nothing in flight. running holds the ids of the
\* jobs whose handler call is awaited, immediates counts the setImmediate
\* callbacks not yet run, nextId stands for generateJobId; picks (how often
\* processNext took a job) and seen (the last status of a job, kept when the
\* job is removed) are history.
NoQueue == [queue |-> <<>>, processing |-> FALSE, running |-> {}, immediates |-> 0,
            nextId |-> 1, picks |-> EmptyMap, seen |-> EmptyMap]


Init ==
  /\ task = NoTask
  /\ runKind = "none"
  /\ config = AgentConfig(NoOptions, TRUE)
  /\ maxRetries \in RetryChoices
  /\ pc = "idle"
  /\ plan = EmptyPlan
  /\ i = 0
  /\ failedResult = NoResult
  /\ modifiedStep = NoModStep
  /\ context = createContext
  /\ completedSteps = <<>>
  /\ failedSteps = <<>>
  /\ retryCount = EmptyMap
  /\ outcome = NoOutcome
  /\ execCalls = <<>>
  /\ llmCalls = NoLLMCalls
  /\ itCalls = EmptyMap
  /\ unit = NoUnit
  /\ allowShellCommands = DefaultAllowShellCommands
  /\ pair = NoPair
  /\ jobs = <<>>
  /\ cli = NoCli
  /\ queue = NoQueue

\* The handler of POST /codegen: create the task, start
\* executeAgentInBackground.
AcceptCodegen(opts) ==
  /\ task.status = "none"
  /\ task' = [status |-> "executing", options |-> opts, plan |-> Absent, error |-> "",
              action |-> "Creating execution plan...", result |-> Absent]
  /\ StartAgent("background", AgentConfig(opts, opts.previewMode))

\* The checks of the apply route as they would be without the status check.
ApplyReady_PlanOnly(t) == t.plan # Absent

\* The checks of the apply route as they would be if they turned down only a
\* task that is executing.
ApplyReady_NotExecuting(t) == t.plan # Absent /\ t.status # "executing"

\* The checks of the apply route: the task holds a plan and is completed.
ApplyReady(t) == t.plan # Absent /\ t.status = "completed"

\* The handler of POST /tasks/:taskId/apply: start executeApprovedPlan.
AcceptApply ==
  /\ ApplyReady(task)
  /\ task' = [task EXCEPT !.status = "executing", !.action = "Applying changes..."]
  /\ StartAgent("apply", AgentConfig(task.options, FALSE))

\* The handler of POST /checkpoints/save: a job made of what the task holds.
AcceptSave ==
  /\ task.status # "none"
  /\ jobs' = Append(jobs,
       [type |-> "save-checkpoint",
        answer |-> [logs |-> <<>>,
                    summary |-> IF task.result = Absent THEN "Task completed"
                                ELSE task.result[1].summary],
        filesModified |-> IF task.result = Absent THEN <<>>
                          ELSE task.result[1].filesModified])
  /\ UNCHANGED <<task, runKind, config, maxRetries, pc, plan, i, failedResult,
                 modifiedStep, context, completedSteps, failedSteps, retryCount,
                 outcome, execCalls, llmCalls, itCalls, unit, allowShellCommands>>

\* POST /codegen sent by a client other than the CLI.
PostCodegen(opts) ==
  /\ AcceptCodegen(opts)
  /\ UNCHANGED <<pair, cli, queue>>

\* POST /tasks/:taskId/apply sent by a client other than the CLI.
PostApply ==
  /\ AcceptApply
  /\ UNCHANGED <<pair, cli, queue>>

\* The planning completion call resolves: the rest of createPlan, the preview
\* gate and the entry of the execution loop.
CreatePlan(resp) ==
  /\ pc = "planning"
  /\ llmCalls' = [llmCalls EXCEPT !.plan = @ + 1, !.planBody = RespKind(resp),
                                  !.planSteps = resp.body.steps]
  /\ LET cp == createPlan(resp, context, FreshUuid(runKind))
         st == [Cur EXCEPT !.context = cp.context, !.plan = cp.plan]
     IN IF ~cp.ok THEN Commit(Throw(st, "Planning failed"))
        ELSE IF PreviewGate(config) THEN Commit(ReturnPreview(st))
        ELSE LET st2 == [st EXCEPT !.context = addLog(@, "info", "Phase 2: Execution", NoStep)]
             IN IF Len(cp.plan.steps) = 0 THEN Commit(EndOfLoop(st2))
                ELSE Commit(BeginStep([st2 EXCEPT !.i = 0]))
  /\ UNCHANGED <<allowShellCommands, pair, cli, queue, unit, runKind, config, maxRetries, failedResult, modifiedStep,
                 retryCount, execCalls, itCalls>>

\* The executeStep call of the current iteration resolves: either the start of
\* retryWithFix, or the step's end and the start of the next iteration.
ExecStep(out) ==
  /\ pc = "step"
  /\ LET step == plan.steps[i + 1]
         er == executeStep(step, context, out)
         st == [Cur EXCEPT !.context = er.context]
     IN /\ Feasible(step, out)
        /\ execCalls' = Append(execCalls, ExecCall(step, er, FALSE, out))
        /\ IF er.threw
           THEN /\ Commit(Throw(st, "executeStep threw"))
                /\ UNCHANGED <<retryCount, itCalls, failedResult>>
           ELSE IF ShouldRetry(er.result, retryCount, step.stepId, maxRetries)
           THEN LET c1 == addLog(er.context, "warn", "Step failed, attempting recovery", step.stepId)
                    rb == RetryBegin(retryCount, c1, step.stepId)
                IN /\ retryCount' = rb.retryCount
                   /\ itCalls' = MapSet(itCalls, step.stepId, MapGet(itCalls, step.stepId) + 1)
                   /\ failedResult' = er.result
                   /\ Commit([st EXCEPT !.pc = "fixing", !.context = rb.context])
           ELSE /\ Commit(FinishStep(st, er.result))
                /\ UNCHANGED <<retryCount, itCalls, failedResult>>
  /\ UNCHANGED <<allowShellCommands, pair, cli, queue, unit, runKind, config, maxRetries, modifiedStep, llmCalls>>

\* The remediation completion call resolves: the rest of getFixStrategy and
\* retryWithFix up to the re-execution.
GetFix(resp) ==
  /\ pc = "fixing"
  /\ llmCalls' = [llmCalls EXCEPT !.fix = @ + 1, !.fixBody = RespKind(resp)]
  /\ LET step == plan.steps[i + 1]
         gf == getFixStrategy(resp, context, step.stepId)
         st == [Cur EXCEPT !.context = gf.context]
     IN IF gf.fix = Absent
        THEN /\ Commit(FinishStep(st, failedResult))
             /\ UNCHANGED modifiedStep
        ELSE LET ms == BuildModifiedStep(step, gf.fix[1])
             IN /\ modifiedStep' = ms
                /\ Commit([st EXCEPT !.pc = "retrying",
                                     !.context = addLog(@, "info", "Fix strategy", step.stepId),
                                     !.plan.steps[i + 1] = StepAfterSpread(step, ms)])
  /\ UNCHANGED <<allowShellCommands, pair, cli, queue, unit, runKind, config, maxRetries, failedResult, retryCount,
                 execCalls, itCalls>>

\* The re-execution of the modified step resolves: the end of retryWithFix and
\* of the loop iteration.
RetryExec(out) ==
  /\ pc = "retrying"
  /\ Feasible(modifiedStep, out)
  /\ LET er == executeStep(modifiedStep, context, out)
         rf == RetryFinish(er, failedResult, modifiedStep.stepId)
     IN /\ execCalls' = Append(execCalls, ExecCall(modifiedStep, er, TRUE, out))
        /\ Commit(FinishStep([Cur EXCEPT !.context = rf.context], rf.result))
  /\ UNCHANGED <<allowShellCommands, pair, cli, queue, unit, runKind, config, maxRetries, failedResult, modifiedStep,
                 retryCount, llmCalls, itCalls>>

\* ------------------------------------------- Executor and Iterator on their own
\* The methods of one Iterator and one Executor called directly, each call on
\* a context of its own.

UnitStepIds == {generateStepId(0, 1), generateStepId(1, 1)}
UnitStep(id, t) == [stepId |-> id, description |-> "d", tool |-> t, params |-> "p1",
                    dependencies |-> <<>>, status |-> "in-progress"]
UnitSteps == {UnitStep(generateStepId(0, 1), t) : t \in {"file", "command", "nope"}}
               \cup {UnitStep(generateStepId(1, 1), "file")}
\* The failed result a caller hands to retryWithFix for a step: the one
\* executeStep gives when the step's tool fails or is not found.
FailedOf(step) == executeStep(step, createContext, "fail").result
\* The remediation completions of the direct calls.
UnitFixResponses ==
  {r \in FixResponses :
     /\ <<r.prefix, r.suffix>> \in {<<"", "">>, <<"fence-json", "fence">>, <<"", "prose-brace">>}
     /\ r.body.kind \in {"throw", "fix", "broken", "text"}}

InitUnit ==
  /\ task = NoTask
  /\ runKind = "none"
  /\ config = AgentConfig(NoOptions, TRUE)
  /\ maxRetries \in RetryChoices
  /\ pc = "unit"
  /\ plan = EmptyPlan
  /\ i = 0
  /\ failedResult = NoResult
  /\ modifiedStep = NoModStep
  /\ context = createContext
  /\ completedSteps = <<>>
  /\ failedSteps = <<>>
  /\ retryCount = EmptyMap
  /\ outcome = NoOutcome
  /\ execCalls = <<>>
  /\ llmCalls = NoLLMCalls
  /\ itCalls = EmptyMap
  /\ unit = NoUnit
  /\ allowShellCommands = DefaultAllowShellCommands
  /\ pair = NoPair
  /\ jobs = <<>>
  /\ cli = NoCli
  /\ queue = NoQueue

UnitFrame == UNCHANGED <<allowShellCommands, pair, jobs, cli, queue, task, runKind, config, maxRetries, pc, plan, i, failedResult,
                         modifiedStep, completedSteps, failedSteps, outcome>>

\* iterator.retryWithFix(step, failed, createContext(..), executor)
UnitRetryWithFix(step, resp, out) ==
  /\ pc = "unit"
  /\ MapGet(itCalls, step.stepId) < MaxCalls
  /\ LET failed == FailedOf(step)
         r == retryWithFix(retryCount, step, failed, createContext, resp, out)
     IN /\ r.calls # <<>> \/ out = "ok"
        /\ retryCount' = r.retryCount
        /\ context' = r.context
        /\ execCalls' = r.calls
        /\ llmCalls' = [NoLLMCalls EXCEPT !.fix = r.llm, !.fixBody = RespKind(resp)]
        /\ unit' = [op |-> "retryWithFix", step |-> step, failed |-> failed,
                    result |-> r.result, resp |-> RespKind(resp),
                    before |-> createContext, after |-> r.step]
  /\ itCalls' = MapSet(itCalls, step.stepId, MapGet(itCalls, step.stepId) + 1)
  /\ UnitFrame

\* iterator.resetRetryCount(stepId)
UnitResetRetryCount(stepId) ==
  /\ pc = "unit"
  /\ retryCount' = MapDelete(retryCount, stepId)
  /\ itCalls' = MapDelete(itCalls, stepId)
  /\ unit' = [NoUnit EXCEPT !.op = "resetRetryCount", !.step.stepId = stepId]
  /\ UNCHANGED <<context, execCalls, llmCalls>>
  /\ UnitFrame

\* The contexts executeStep is called on: a new one, and ones that earlier
\* steps of a run have filled.
UnitContexts ==
  {createContext,
   addFileModified(createContext, "p1"),
   addFileModified(addFileModified(createContext, "p2"), "p1"),
   addCommandRun(addFileModified(createContext, "p2"), "p1")}

\* executor.executeStep(step, ctx)
UnitExecuteStep(step, ctx, out) ==
  /\ pc = "unit"
  /\ Feasible(step, out)
  /\ LET er == executeStep(step, ctx, out)
     IN /\ context' = er.context
        /\ execCalls' = <<ExecCall(step, er, FALSE, out)>>
        /\ unit' = [op |-> "executeStep", step |-> step, failed |-> NoResult,
                    result |-> er.result, resp |-> "", before |-> ctx, after |-> step]
  /\ llmCalls' = NoLLMCalls
  /\ UNCHANGED <<retryCount, itCalls>>
  /\ UnitFrame

NextUnit ==
  \/ \E step \in UnitSteps, resp \in UnitFixResponses, out \in ToolOutcomes :
        UnitRetryWithFix(step, resp, out)
  \/ \E id \in UnitStepIds : UnitResetRetryCount(id)
  \/ \E step \in UnitSteps, ctx \in UnitContexts, out \in ToolOutcomes :
        UnitExecuteStep(step, ctx, out)

SpecUnit == InitUnit /\ [][NextUnit]_vars

\* ------------------------------------------------- two tasks at the same time
\* Two POST /codegen requests for the same prompt, each with its own task,
\* Agent and Agent.execute invocation; the two invocations are interleaved at
\* their awaits. The variables above hold the invocation that is running and
\* pair.saved holds the one that is suspended.

\* How often the event loop changes between the two invocations.
MaxSwitches == 2

\* Everything that belongs to one task, its Agent and its invocation.
Frame ==
  [task |-> task, runKind |-> runKind, config |-> config, pc |-> pc, plan |-> plan,
   i |-> i, failedResult |-> failedResult, modifiedStep |-> modifiedStep,
   context |-> context, completedSteps |-> completedSteps,
   failedSteps |-> failedSteps, retryCount |-> retryCount, outcome |-> outcome,
   execCalls |-> execCalls, llmCalls |-> llmCalls, itCalls |-> itCalls]

\* The context as it would be if it were one object shared by all invocations.
OwnContext_Shared(mine, current) == current

\* The context a resumed invocation works on: the object its own createContext
\* call returned, a local of the invocation, whatever ran in between.
OwnContext(mine, current) == mine

\* The step objects, plan completions and remediation completions of the
\* two-task runs.
PairRawSteps ==
  {[tool |-> "file", params |-> "p1", dependencies |-> <<>>],
   [tool |-> "command", params |-> "p1", dependencies |-> <<>>],
   [tool |-> "git", params |-> "pr", dependencies |-> <<>>]}
PairPlans ==
  {<<>>} \cup {<<x>> : x \in PairRawSteps}
    \cup {<<x, y>> : x \in {r \in PairRawSteps : r.tool = "file"},
                     y \in {r \in PairRawSteps : r.tool = "command"}}
PairPlanResponses ==
  {LLMThrows} \cup {[prefix |-> "", body |-> JsonPlan(q), suffix |-> ""] : q \in PairPlans}
PairFixResponses ==
  {LLMThrows, [prefix |-> "", body |-> JsonFix("p2"), suffix |-> ""]}
PairOptions == [previewMode : BOOLEAN, autonomous : BOOLEAN, maxIterations : {0}]

InitPair ==
  /\ task = NoTask
  /\ runKind = "none"
  /\ config = AgentConfig(NoOptions, TRUE)
  /\ maxRetries \in RetryChoices
  /\ pc = "idle"
  /\ plan = EmptyPlan
  /\ i = 0
  /\ failedResult = NoResult
  /\ modifiedStep = NoModStep
  /\ context = createContext
  /\ completedSteps = <<>>
  /\ failedSteps = <<>>
  /\ retryCount = EmptyMap
  /\ outcome = NoOutcome
  /\ execCalls = <<>>
  /\ llmCalls = NoLLMCalls
  /\ itCalls = EmptyMap
  /\ unit = NoUnit
  /\ allowShellCommands \in BOOLEAN
  /\ pair = NoPair
  /\ jobs = <<>>
  /\ cli = NoCli
  /\ queue = NoQueue

\* A second POST /codegen with the same body while the first task exists: its
\* task, its Agent and the start of its invocation; the first invocation stays
\* suspended.
PostSecond ==
  /\ pair.saved = Absent
  /\ task.status # "none"
  /\ pair' = [pair EXCEPT !.active = 2, !.saved = Some(Frame)]
  /\ task' = [status |-> "executing", options |-> task.options, plan |-> Absent, error |-> "",
              action |-> "Creating execution plan...", result |-> Absent]
  /\ StartAgent("background", AgentConfig(task.options, task.options.previewMode))
  /\ UNCHANGED <<cli, queue>>

\* The event loop resumes the suspended invocation at its await and the
\* running one waits at its own.
Switch ==
  /\ pair.saved # Absent
  /\ pair.saved[1].pc # "idle"
  /\ pair.switches < MaxSwitches
  /\ LET f == pair.saved[1]
     IN /\ task' = f.task
        /\ runKind' = f.runKind
        /\ config' = f.config
        /\ pc' = f.pc
        /\ plan' = f.plan
        /\ i' = f.i
        /\ failedResult' = f.failedResult
        /\ modifiedStep' = f.modifiedStep
        /\ context' = OwnContext(f.context, context)
        /\ completedSteps' = f.completedSteps
        /\ failedSteps' = f.failedSteps
        /\ retryCount' = f.retryCount
        /\ outcome' = f.outcome
        /\ execCalls' = f.execCalls
        /\ llmCalls' = f.llmCalls
        /\ itCalls' = f.itCalls
  /\ pair' = [active |-> 3 - pair.active, saved |-> Some(Frame),
              switches |-> pair.switches + 1]
  /\ UNCHANGED <<maxRetries, unit, allowShellCommands, jobs, cli, queue>>

NextPair ==
  \/ \E opts \in PairOptions : PostCodegen(opts)
  \/ PostSecond
  \/ Switch
  \/ \E resp \in PairPlanResponses : CreatePlan(resp)
  \/ \E out \in ToolOutcomes : ExecStep(out)
  \/ \E resp \in PairFixResponses : GetFix(resp)
  \/ \E out \in ToolOutcomes : RetryExec(out)

SpecPair == InitPair /\ [][NextPair]_vars

\* ------------------------------------------------------------------ the CLI
\* One prompt handled by the CLI: by runCommand (the run and voice commands)
\* or by processPrompt (the interactive command), against the routes above.

\* The plan and remediation completions of the runs the CLI starts.
CliPlans ==
  {<<>>,
   <<[tool |-> "file", params |-> "p1", dependencies |-> <<>>]>>,
   <<[tool |-> "file", params |-> "p1", dependencies |-> <<>>],
     [tool |-> "nope", params |-> "p1", dependencies |-> <<>>]>>}
CliPlanResponses ==
  {LLMThrows} \cup {[prefix |-> "", body |-> JsonPlan(q), suffix |-> ""] : q \in CliPlans}
CliFixResponses ==
  {LLMThrows, [prefix |-> "", body |-> JsonFix("p2"), suffix |-> ""]}

\* options: {autonomous: options.autonomous || false, maxIterations: 10}; the
\* CLI sends no previewMode, which the route reads as preview mode on.
CliOptions(aut) == [previewMode |-> TRUE, autonomous |-> aut, maxIterations |-> 10]

\* Everything but the CLI process.
ServerVars == <<task, runKind, config, maxRetries, pc, plan, i, failedResult,
                modifiedStep, context, completedSteps, failedSteps, retryCount,
                outcome, execCalls, llmCalls, itCalls, unit, allowShellCommands,
                pair, jobs, queue>>

\* apiClient.generateCode(..), then the polling loop.
CliSubmit(cmd, aut) ==
  /\ cli.cmd = "none"
  /\ AcceptCodegen(CliOptions(aut))
  /\ cli' = [cmd |-> cmd, stage |-> "polling", answer |-> "none", said |-> ""]
  /\ UNCHANGED <<pair, queue>>

\* A getTaskStatus poll that sees the task completed or failed: the results
\* are shown and, with runCommand always and with processPrompt when the
\* result holds a plan, the user is asked.
CliPoll ==
  /\ cli.stage = "polling"
  /\ task.status \in {"completed", "failed"}
  /\ cli' = IF task.status = "failed"
            THEN [cli EXCEPT !.stage = "done", !.said = "Task failed"]
            ELSE IF cli.cmd = "run" \/ task.plan # Absent
            THEN [cli EXCEPT !.stage = "asking"]
            ELSE [cli EXCEPT !.stage = "done", !.said = "Files modified"]
  /\ UNCHANGED ServerVars

\* The answer to 'Apply these code changes?'. runCommand reports at once and
\* asks its next question; processPrompt calls apiClient.applyChanges and
\* polls again.
CliAnswer(yes) ==
  /\ cli.stage = "asking"
  /\ IF ~yes
     THEN /\ cli' = [cli EXCEPT !.stage = "done", !.answer = "no",
                                !.said = "Changes not applied"]
          /\ UNCHANGED ServerVars
     ELSE IF cli.cmd = "run"
     THEN /\ cli' = [cli EXCEPT !.stage = "asking-save", !.answer = "yes",
                                !.said = "Changes applied!"]
          /\ UNCHANGED ServerVars
     ELSE /\ AcceptApply
          /\ cli' = [cli EXCEPT !.stage = "applying", !.answer = "yes"]
          /\ UNCHANGED <<pair, queue>>

\* A getTaskStatus poll of processPrompt after the apply request that sees
\* the current action 'Changes applied' or the status failed.
CliPollApply ==
  /\ cli.stage = "applying"
  /\ task.action = "Changes applied" \/ task.status = "failed"
  /\ cli' = IF task.action = "Changes applied"
            THEN [cli EXCEPT !.stage = "done", !.said = "Changes applied successfully!"]
            ELSE [cli EXCEPT !.stage = "done", !.said = "Failed to apply changes"]
  /\ UNCHANGED ServerVars

\* The answer of runCommand's user to 'Save this conversation?': on yes,
\* apiClient.saveConversation. (The question about a pull request that follows
\* goes to the git route.)
CliSave(yes) ==
  /\ cli.stage = "asking-save"
  /\ cli' = [cli EXCEPT !.stage = "done"]
  /\ IF yes THEN AcceptSave /\ UNCHANGED <<pair, queue>>
     ELSE UNCHANGED ServerVars

NextCli ==
  \/ \E cmd \in {"run", "interactive"}, aut \in BOOLEAN : CliSubmit(cmd, aut)
  \/ CliPoll
  \/ \E yes \in BOOLEAN : CliAnswer(yes)
  \/ \E yes \in BOOLEAN : CliSave(yes)
  \/ CliPollApply
  \/ \E resp \in CliPlanResponses : CreatePlan(resp)
  \/ \E out \in ToolOutcomes : ExecStep(out)
  \/ \E resp \in CliFixResponses : GetFix(resp)
  \/ \E out \in ToolOutcomes : RetryExec(out)

SpecCli == Init /\ [][NextCli]_vars

\* A client that sends the apply request of a task again and again.
NextReapply ==
  \/ \E aut \in BOOLEAN : PostCodegen(CliOptions(aut))
  \/ PostApply
  \/ \E resp \in CliPlanResponses : CreatePlan(resp)
  \/ \E out \in ToolOutcomes : ExecStep(out)
  \/ \E resp \in CliFixResponses : GetFix(resp)
  \/ \E out \in ToolOutcomes : RetryExec(out)

SpecReapply == Init /\ [][NextReapply]_vars

\* A client that sends the apply request of a task once.
Next ==
  \/ \E opts \in TaskOptions : PostCodegen(opts)
  \/ task.action # "Changes applied" /\ PostApply
  \/ \E resp \in PlanResponses : CreatePlan(resp)
  \/ \E out \in ToolOutcomes : ExecStep(out)
  \/ \E resp \in AgentFixResponses : GetFix(resp)
  \/ \E out \in ToolOutcomes : RetryExec(out)

Spec == Init /\ [][Next]_vars

\* Runs started with previewMode false only, on longer plans.
NextRun ==
  \/ \E opts \in TaskOptions : ~opts.previewMode /\ PostCodegen(opts)
  \/ \E resp \in RunPlanResponses : CreatePlan(resp)
  \/ \E out \in ToolOutcomes : ExecStep(out)
  \/ \E resp \in AgentFixResponses : GetFix(resp)
  \/ \E out \in ToolOutcomes : RetryExec(out)

SpecRun == Init /\ [][NextRun]_vars

\* The positions at which a run is suspended at an await: a completion call
\* or a tool call is pending.
AwaitPending == pc \in {"planning", "step", "fixing", "retrying"}

\* The completions fed to the runs whose termination is examined: bare bodies,
\* since the text around a body does not change the path a run takes.
LivePlanResponses ==
  {LLMThrows} \cup
  {[prefix |-> "", body |-> b, suffix |-> ""] :
     b \in {JsonPlan(q) : q \in SeqsUpTo(RawSteps, MaxRunSteps)} \cup {PlainText}}
LiveFixResponses ==
  {LLMThrows} \cup
  {[prefix |-> "", body |-> JsonFix(mp), suffix |-> ""] : mp \in {"p2", "null"}}

\* The continuation of a run at its pending await: the completion call or the
\* tool call it waits for returns or throws.
AwaitResolves ==
  \/ \E resp \in LivePlanResponses : CreatePlan(resp)
  \/ \E out \in ToolOutcomes : ExecStep(out)
  \/ \E resp \in LiveFixResponses : GetFix(resp)
  \/ \E out \in ToolOutcomes : RetryExec(out)

\* Runs started with any options, and their continuations.
NextLive ==
  \/ \E opts \in TaskOptions : PostCodegen(opts)
  \/ AwaitResolves

\* AwaitResolves can happen exactly where an await is pending.
AwaitPendingIsEnabled == AwaitPending <=> ENABLED <<AwaitResolves>>_vars

\* The same runs when every pending call comes back. The condition is weak
\* fairness of the continuation, WF_vars(AwaitResolves), written out with
\* AwaitPending for ENABLED <<AwaitResolves>>_vars (see AwaitPendingIsEnabled).
SpecRunFair ==
  Init /\ [][NextLive]_vars /\ ([]<>(~AwaitPending) \/ []<><<AwaitResolves>>_vars)


\* ---------------------------------------------------------------- JobQueue
\* The JobQueue singleton on its own: enqueue is called by any caller, the
\* handler's promise settles whenever the environment lets it.
\* How many jobs are enqueued.
MaxJobs == 2
\* maxRetries: number = 3, the value every caller of enqueueJob gets.
DefaultJobMaxRetries == 3
\* this.handlers once initializeWorker has run.
Handlers == {"save-checkpoint"}
\* The types enqueue is called with: the registered one, and one that has no
\* handler.
JobTypes == {"save-checkpoint", "my-job"}
\* How the promise of a handler call settles.
HandlerOutcomes == {"resolved", "rejected"}

\* The job object enqueue builds.
NewJob(id, type) ==
  [id |-> id, type |-> type, status |-> "pending", retries |-> 0,
   maxRetries |-> DefaultJobMaxRetries]

IndexOfId(jobList, id) ==
  LET ks == {k \in 1 .. Len(jobList) : jobList[k].id = id}
  IN IF ks = {} THEN 0 ELSE CHOOSE k \in ks : TRUE

\* The pending job as it would be found if the search took the last one.
FindPending_Last(jobList) ==
  LET ks == {k \in 1 .. Len(jobList) : jobList[k].status = "pending"}
  IN IF ks = {} THEN 0 ELSE CHOOSE k \in ks : \A j \in ks : j <= k

\* this.queue.find((j) => j.status === 'pending'): the index of the first
\* pending job, 0 when there is none.
FindPending(jobList) ==
  LET ks == {k \in 1 .. Len(jobList) : jobList[k].status = "pending"}
  IN IF ks = {} THEN 0 ELSE CHOOSE k \in ks : \A j \in ks : k <= j

\* The guard of processNext as it would be without the flag.
IsBusy_Never(q) == FALSE

\* if (this.processing) return
IsBusy(q) == q.processing

\* The catch block as it would be if it compared with <=.
CatchJob_Inclusive(job) ==
  [job EXCEPT !.retries = @ + 1,
              !.status = IF job.retries + 1 <= job.maxRetries THEN "pending" ELSE "failed"]

\* The catch block as it would be if it only counted the failure.
CatchJob_CountOnly(job) == [job EXCEPT !.retries = @ + 1]

\* The catch block of processNext: count the failure, back to pending while
\* retries < maxRetries, else failed.
CatchJob(job) ==
  [job EXCEPT !.retries = @ + 1,
              !.status = IF job.retries + 1 < job.maxRetries THEN "pending" ELSE "failed"]

\* The history of statuses brought up to date with the job list.
Track(q) ==
  [q EXCEPT !.seen =
     [id \in DOMAIN q.seen \cup {q.queue[k].id : k \in 1 .. Len(q.queue)} |->
        IF IndexOfId(q.queue, id) # 0 THEN q.queue[IndexOfId(q.queue, id)].status
        ELSE q.seen[id]]]

\* processNext up to its await, or to its end when it returns early or the
\* job's type has no handler (the throw, the catch and the finally run in
\* the same turn).
processNext(q) ==
  LET k == FindPending(q.queue)
  IN IF IsBusy(q) \/ k = 0 THEN q
     ELSE LET job == q.queue[k]
              taken == [q EXCEPT !.picks = MapSet(@, job.id, MapGet(@, job.id) + 1)]
          IN IF job.type \in Handlers
             THEN Track([taken EXCEPT !.processing = TRUE,
                                      !.queue[k].status = "processing",
                                      !.running = @ \cup {job.id}])
             ELSE Track([taken EXCEPT !.processing = FALSE,
                                      !.queue[k] = CatchJob(job),
                                      !.immediates = @ + 1])

\* Every variable but the queue.
OtherVars == <<task, runKind, config, maxRetries, pc, plan, i, failedResult,
               modifiedStep, context, completedSteps, failedSteps, retryCount,
               outcome, execCalls, llmCalls, itCalls, unit, allowShellCommands,
               pair, jobs, cli>>

\* queue.enqueue(type, data): push the job, call processNext.
Enqueue(type) ==
  /\ queue.nextId <= MaxJobs
  /\ queue' = processNext(Track([queue EXCEPT
                  !.queue = Append(@, NewJob(queue.nextId, type)),
                  !.nextId = @ + 1]))
  /\ UNCHANGED OtherVars

\* The setInterval callback of start().
Tick ==
  /\ queue' = processNext(queue)
  /\ UNCHANGED OtherVars

\* A setImmediate callback scheduled at the end of a processNext.
Immediate ==
  /\ queue.immediates > 0
  /\ queue' = processNext([queue EXCEPT !.immediates = @ - 1])
  /\ UNCHANGED OtherVars

\* The handler's promise settles: the rest of processNext after its await.
HandlerSettles(id, how) ==
  /\ id \in queue.running
  /\ LET k == IndexOfId(queue.queue, id)
         job == queue.queue[k]
     IN queue' = Track([queue EXCEPT
                   !.queue[k] = IF how = "resolved"
                                THEN [job EXCEPT !.status = "completed"]
                                ELSE CatchJob(job),
                   !.processing = FALSE,
                   !.running = @ \ {id},
                   !.immediates = @ + 1])
  /\ UNCHANGED OtherVars

\* The setTimeout callback of a completed job: splice it out of the queue.
RemoveCompleted(id) ==
  /\ LET k == IndexOfId(queue.queue, id)
     IN /\ k # 0
        /\ queue.queue[k].status = "completed"
        /\ queue' = [queue EXCEPT
             !.queue = SubSeq(@, 1, k - 1) \o SubSeq(@, k + 1, Len(@))]
  /\ UNCHANGED OtherVars

NextQueue ==
  \/ \E type \in JobTypes : Enqueue(type)
  \/ Tick
  \/ Immediate
  \/ \E id \in 1 .. MaxJobs, how \in HandlerOutcomes : HandlerSettles(id, how)
  \/ \E id \in 1 .. MaxJobs : RemoveCompleted(id)

SpecQueue == Init /\ [][NextQueue]_vars

\* The queue when the timer keeps firing and every handler call settles.
SpecQueueFair ==
  /\ SpecQueue
  /\ WF_vars(Tick)
  /\ WF_vars(\E id \in 1 .. MaxJobs, how \in HandlerOutcomes : HandlerSettles(id, how))


\* ----------------------------------------------------------------- claims
Range(q) == {q[k] : k \in 1 .. Len(q)}
IsPlanCall(c) == ~c.retry
ToolAndParams(c) == <<c.tool, c.params>>
\* The (tool, params) pairs of a plan's steps, and of the plan steps the
\* current Executor was called for, in order.
StepsOf(p) == [k \in 1 .. Len(p.steps) |-> ToolAndParams(p.steps[k])]
RanSteps == LET calls == SelectSeq(execCalls, IsPlanCall)
            IN [k \in 1 .. Len(calls) |-> ToolAndParams(calls[k])]
IsPrefix(a, b) == Len(a) <= Len(b) /\ \A k \in 1 .. Len(a) : a[k] = b[k]
RunEnded == runKind # "none" /\ pc = "idle"
Attempted(k) == \E c \in Range(execCalls) : c.stepId = plan.steps[k].stepId /\ ~c.retry
Retried(k) == \E c \in Range(execCalls) : c.stepId = plan.steps[k].stepId /\ c.retry

\* C1: every step the apply run of a task executes is the step (tool and
\* params) that the previewed plan stored on that task holds at the same
\* position: the apply run executes nothing the preview did not show.
C1_ApplyRunsApprovedPlan ==
  runKind = "apply" => IsPrefix(RanSteps, StepsOf(task.plan[1]))

\* C2: a run with previewMode true calls no tool and leaves no side effect in
\* its context, and what it returns is the plan with empty completedSteps,
\* failedSteps, filesModified and commandsRun.
C2_PreviewRunsNoTool ==
  (runKind # "none" /\ config.previewMode) =>
    /\ execCalls = <<>>
    /\ context.filesModified = <<>> /\ context.commandsRun = <<>>
    /\ outcome.kind = "returned" =>
         /\ outcome.ret.plan = Some(plan)
         /\ outcome.ret.completedSteps = <<>> /\ outcome.ret.failedSteps = <<>>
         /\ outcome.ret.filesModified = <<>> /\ outcome.ret.commandsRun = <<>>

C2_Witness ==
  /\ runKind = "background" /\ config.previewMode
  /\ outcome.kind = "returned" /\ Len(plan.steps) = 2
  /\ plan.steps[1].tool = "file"

\* C3: in non-autonomous mode, once a step has ended failed the run has been
\* aborted with an error, the Executor has been called for no later step, and
\* every later step is still pending.
C3_AbortOnFirstFailure ==
  (runKind # "none" /\ ~config.autonomous) =>
    \A k \in 1 .. Len(plan.steps) :
      plan.steps[k].status = "failed" =>
        /\ outcome.kind = "thrown"
        /\ \A c \in Range(execCalls) : c.stepId[1] < k
        /\ \A j \in (k + 1) .. Len(plan.steps) : plan.steps[j].status = "pending"

C3_Witness ==
  /\ ~config.autonomous /\ Len(plan.steps) = 3
  /\ plan.steps[1].status = "completed"
  /\ plan.steps[2].status = "failed" /\ Retried(2)
  /\ outcome.kind = "thrown"

\* C4 as stated: when an autonomous run whose planning succeeded has ended,
\* every step of the plan was attempted and completedSteps and failedSteps
\* together hold as many ids as the plan has steps.
C4_EveryStepAttempted ==
  (RunEnded /\ config.autonomous /\ ~config.previewMode /\ llmCalls.planBody = "plan"
     /\ outcome.error # "Planning failed") =>
    /\ \A k \in 1 .. Len(plan.steps) : Attempted(k)
    /\ Len(completedSteps) + Len(failedSteps) = Len(plan.steps)

\* C4 as amended: the same for plans of at most maxIterations steps, and the
\* run then returns these lists.
C4_EveryStepAttemptedWithinCeiling ==
  (RunEnded /\ config.autonomous /\ ~config.previewMode /\ llmCalls.planBody = "plan"
     /\ outcome.error # "Planning failed"
     /\ Len(plan.steps) <= config.maxIterations) =>
    /\ \A k \in 1 .. Len(plan.steps) : Attempted(k)
    /\ outcome.kind = "returned"
    /\ Len(outcome.ret.completedSteps) + Len(outcome.ret.failedSteps) = Len(plan.steps)

C4_Witness ==
  /\ RunEnded /\ config.autonomous /\ Len(plan.steps) = 3
  /\ plan.steps[1].status = "failed" /\ plan.steps[3].status = "completed"
  /\ outcome.kind = "returned"

\* C5: a failed step keeps being retried while canRetry permits: a step whose
\* first execution failed and whose remediation was executed and failed as
\* well is not recorded in failedSteps while canRetry still holds for it.
C5_FailedOnlyAfterRetriesExhausted ==
  runKind # "none" =>
    \A k \in 1 .. Len(plan.steps) :
      (plan.steps[k].stepId \in Range(failedSteps) /\ Retried(k)) =>
        ~canRetry(retryCount, plan.steps[k].stepId, maxRetries)

\* C6: canRetry of a step id is true exactly while fewer than maxRetries calls
\* of retryWithFix were made for it since its last reset.
C6_CanRetryCountsCalls ==
  \A id \in UnitStepIds :
    canRetry(retryCount, id, maxRetries) <=> (MapGet(itCalls, id) < maxRetries)

C6_Witness ==
  /\ pc = "unit" /\ maxRetries = DefaultMaxRetries
  /\ \E id \in UnitStepIds :
       /\ MapGet(itCalls, id) > maxRetries
       /\ ~canRetry(retryCount, id, maxRetries)
  /\ \E id \in UnitStepIds : canRetry(retryCount, id, maxRetries)

\* C7: in no run is the Executor called for more than maxIterations steps of
\* the plan.
C7_CeilingBoundsExecutedSteps ==
  runKind # "none" =>
    Cardinality({c.stepId : c \in Range(execCalls)}) <= config.maxIterations

\* C8: when the planning completion fails or is no plan (plain text, broken
\* JSON, JSON without steps), the run has ended with the planning error after
\* a single planning call, and the Executor was never called.
C8_PlanningFailureIsFatal ==
  (runKind # "none" /\ llmCalls.planBody \in {"throw", "text", "broken", "other", "json-null"}) =>
    /\ pc = "idle"
    /\ outcome.kind = "thrown" /\ outcome.error = "Planning failed"
    /\ llmCalls.plan = 1
    /\ execCalls = <<>>

C8_Witness ==
  /\ runKind = "background" /\ ~config.previewMode
  /\ llmCalls.planBody = "text"
  /\ outcome.kind = "thrown"

\* C9: no executeStep call throws: a call for an unknown tool runs no tool and
\* gives a failure result, a call whose tool throws gives a failure result
\* with the exception message, and no run ends by an exception of executeStep.
C9_ExecuteStepNeverThrows ==
  /\ \A c \in Range(execCalls) :
       /\ ~c.threw
       /\ ~findTool(c.tool) => (~c.ran /\ ~c.success /\ c.error = "Tool not found")
       /\ c.toolOut = "throw" => (~c.success /\ c.error = "Tool execution failed")
  /\ outcome.error # "executeStep threw"

C9_Witness ==
  /\ runKind # "none"
  /\ \E c \in Range(execCalls) : ~findTool(c.tool)
  /\ \E c \in Range(execCalls) : c.toolOut = "throw"

\* C10: a retryWithFix call whose remediation completion failed, was no JSON,
\* or carried modifiedParams null returns the failed result it was given and
\* calls the Executor not at all.
C10_UnfixableReturnsFailedResult ==
  (unit.op = "retryWithFix" /\ unit.resp \in {"throw", "text", "broken", "null"}) =>
    /\ unit.result = unit.failed
    /\ ~unit.result.success
    /\ execCalls = <<>>

C10_Witness ==
  /\ unit.op = "retryWithFix" /\ unit.resp = "null"
  /\ unit.step.tool = "file"
  /\ unit.result = unit.failed

\* The steps a sequence of reported values keeps when only the first
\* occurrence of each value counts.
RECURSIVE FirstOccurrences(_)
FirstOccurrences(q) ==
  IF q = <<>> THEN <<>>
  ELSE LET init == FirstOccurrences(SubSeq(q, 1, Len(q) - 1))
           last == q[Len(q)]
       IN IF last \in Range(init) THEN init ELSE Append(init, last)
HasDuplicates(q) == \E a, b \in 1 .. Len(q) : a # b /\ q[a] = q[b]
IsOkFileCall(c) == c.tool = "file" /\ c.success
IsOkCommandCall(c) == c.tool = "command" /\ c.success
ParamsOfCall(c) == c.params
\* The paths and the commands the successful calls of an Executor reported.
ReportedFiles(calls) ==
  LET ok == SelectSeq(calls, IsOkFileCall) IN [k \in 1 .. Len(ok) |-> ok[k].params]
ReportedCommands(calls) ==
  LET ok == SelectSeq(calls, IsOkCommandCall) IN [k \in 1 .. Len(ok) |-> ok[k].params]

\* C11: two previews of the same goal whose planning completions hold the same
\* steps return the identical plan, step ids included.
C11_PreviewTwiceSamePlan ==
  (/\ pair.saved # Absent
   /\ config.previewMode /\ pair.saved[1].config.previewMode
   /\ outcome.kind = "returned" /\ pair.saved[1].outcome.kind = "returned"
   /\ StepsOf(plan) = StepsOf(pair.saved[1].plan)) =>
     outcome.ret.plan = pair.saved[1].outcome.ret.plan

\* C12: the filesModified of a run's context never holds a path twice and
\* lists the paths that the successful file steps reported (retries included)
\* in the order in which each was reported first.
C12_FilesModifiedDistinctInOrder ==
  runKind # "none" =>
    /\ ~HasDuplicates(context.filesModified)
    /\ context.filesModified = FirstOccurrences(ReportedFiles(execCalls))

C12_Witness ==
  /\ runKind # "none"
  /\ Len(ReportedFiles(execCalls)) = 2 /\ HasDuplicates(ReportedFiles(execCalls))
  /\ context.filesModified = <<"p1">>

\* C13: when a run in which a step failed has ended by an error, what the
\* caller receives holds the final completedSteps and failedSteps and the full
\* context log.
C13_FailedRunReturnsListsAndLog ==
  (RunEnded /\ outcome.kind = "thrown" /\ failedSteps # <<>>) =>
    /\ outcome.ret.completedSteps = completedSteps
    /\ outcome.ret.failedSteps = failedSteps
    /\ outcome.ret.logs = context.logs

\* C14: the result of a run carries the plan exactly when the run was in
\* preview mode, and no run that called the Executor returns a plan.
C14_PlanOnlyFromPreview ==
  (runKind # "none" /\ outcome.kind = "returned") =>
    /\ (outcome.ret.plan # Absent) <=> config.previewMode
    /\ execCalls # <<>> => outcome.ret.plan = Absent

C14_Witness ==
  /\ runKind # "none" /\ ~config.previewMode
  /\ outcome.kind = "returned" /\ Len(execCalls) >= 2
  /\ outcome.ret.plan = Absent

\* C15: the steps of a plan are executed one at a time in list order, whatever
\* their dependencies name: the Executor's plan calls are for step 0, 1, 2, ..
\* in this order, a step is in progress or called for only when all steps
\* before it are completed or failed and all steps after it are pending, and
\* at most one step is in progress.
Done(k) == plan.steps[k].status \in {"completed", "failed"}
C15_StepsRunInListOrder ==
  runKind # "none" =>
    /\ LET calls == SelectSeq(execCalls, IsPlanCall)
       IN \A n \in 1 .. Len(calls) :
            /\ calls[n].stepId[1] = n - 1
            /\ \A j \in 1 .. (n - 1) : Done(j)
    /\ \A k \in 1 .. Len(plan.steps) :
         plan.steps[k].status = "in-progress" =>
           /\ \A j \in 1 .. (k - 1) : Done(j)
           /\ \A j \in (k + 1) .. Len(plan.steps) : plan.steps[j].status = "pending"

C15_Witness ==
  /\ runKind # "none" /\ Len(plan.steps) = 3
  /\ plan.steps[1].dependencies = <<1>> /\ plan.steps[2].dependencies = <<2>>
  /\ plan.steps[1].status = "failed" /\ plan.steps[2].status = "completed"
  /\ plan.steps[3].status = "in-progress"

\* C16: from one state of a run to the next, the status of a step stays as it
\* is or moves from pending to in-progress or from in-progress to completed
\* or failed.
StatusMoves ==
  {<<"pending", "in-progress">>, <<"in-progress", "completed">>, <<"in-progress", "failed">>}
C16_StatusMovesForward ==
  [][\A k \in 1 .. Len(plan.steps) :
       (k <= Len(plan'.steps) /\ plan'.steps[k].stepId = plan.steps[k].stepId) =>
         \/ plan'.steps[k].status = plan.steps[k].status
         \/ <<plan.steps[k].status, plan'.steps[k].status>> \in StatusMoves]_vars

C16_Witness ==
  /\ runKind # "none" /\ Len(plan.steps) = 3
  /\ plan.steps[1].status = "completed" /\ plan.steps[2].status = "failed"
  /\ plan.steps[3].status = "in-progress" /\ Retried(2)

\* The uuid part of the step ids of the background run of task id.
BackgroundUuid(id) == 2 * id - 1
IsStepLog(l) == l.step # NoStep
IsStartLog(l) == l.msg = "Starting agent execution"
\* The context and the result of the invocation with frame f for task id hold
\* what its own steps produced and nothing else.
OwnOnly(f, id) ==
  /\ \A l \in Range(f.context.logs) \cup Range(f.outcome.ret.logs) :
        IsStepLog(l) => l.step[2] = BackgroundUuid(id)
  /\ Len(SelectSeq(f.context.logs, IsStartLog)) = 1
  /\ f.context.filesModified = FirstOccurrences(ReportedFiles(f.execCalls))
  /\ f.context.commandsRun = ReportedCommands(f.execCalls)
  /\ (f.outcome.kind = "returned" /\ ~f.config.previewMode) =>
       /\ f.outcome.ret.filesModified = FirstOccurrences(ReportedFiles(f.execCalls))
       /\ f.outcome.ret.commandsRun = ReportedCommands(f.execCalls)
       /\ Len(SelectSeq(f.outcome.ret.logs, IsStartLog)) = 1

\* C17: of two invocations that run interleaved, each has in its context and
\* in its result the log entries, files and commands of its own steps only.
C17_ContextOwnedByOneRun ==
  pair.saved # Absent =>
    /\ OwnOnly(Frame, pair.active)
    /\ OwnOnly(pair.saved[1], 3 - pair.active)

C17_Witness ==
  /\ pair.saved # Absent /\ pair.switches = MaxSwitches
  /\ outcome.kind = "returned" /\ pair.saved[1].outcome.kind = "returned"
  /\ ReportedFiles(execCalls) # <<>>
  /\ ReportedCommands(pair.saved[1].execCalls) # <<>>

\* C18 as stated: a tool is called only in the apply run of a task.
C18_ToolsOnlyAfterApproval ==
  (runKind # "none" /\ execCalls # <<>>) => runKind = "apply"

\* C18 as amended: for a task whose request did not set previewMode to false,
\* a tool is called only in the apply run of the task.
C18_ToolsOnlyAfterApprovalInPreview ==
  (runKind # "none" /\ execCalls # <<>> /\ task.options.previewMode) => runKind = "apply"

C18_Witness ==
  /\ runKind = "apply" /\ task.options.previewMode
  /\ \E c \in Range(execCalls) : c.ran /\ c.success
  /\ task.status = "completed"

\* C19: while allowShellCommands is false no call of a tool hands a command
\* line to a shell, no command step succeeds and commandsRun stays empty.
C19_NoShellWhenDisabled ==
  (runKind # "none" /\ ~allowShellCommands) =>
    /\ \A c \in Range(execCalls) : ~c.shell /\ (c.tool = "command" => ~c.success)
    /\ context.commandsRun = <<>>

\* C20: an autonomous run whose planning succeeded and whose plan is within
\* the iteration ceiling ends by returning a result, whatever its tools and
\* its remediation calls did; and no run at all ends by an error other than
\* the run-level ones.
RunLevelErrors ==
  {"Planning failed", "Step failed", "Maximum iterations exceeded", "step(s) failed"}
C20_FailuresStayInsideTheRun ==
  /\ outcome.kind = "thrown" => outcome.error \in RunLevelErrors
  /\ (RunEnded /\ config.autonomous /\ ~config.previewMode
        /\ outcome.error # "Planning failed"
        /\ Len(plan.steps) <= config.maxIterations) => outcome.kind = "returned"

C20_Witness ==
  /\ RunEnded /\ config.autonomous /\ outcome.kind = "returned"
  /\ Len(outcome.ret.failedSteps) = 3
  /\ \E c \in Range(execCalls) : c.toolOut = "throw" /\ ~c.retry
  /\ \E c \in Range(execCalls) : c.toolOut = "fail" /\ c.retry
  /\ llmCalls.fixBody = "throw"

\* C21: an executeStep call whose tool returned success leaves in
\* context.filesModified the paths that were there, in their order, joined by
\* the paths of the result's metadata.filesModified, each once; and it leaves
\* context.commandsRun with one record appended when the result's metadata
\* holds a command and as it was when it holds none.
C21_SuccessMergesSideEffects ==
  (unit.op = "executeStep" /\ unit.result.success) =>
    /\ Range(context.filesModified) =
         Range(unit.before.filesModified) \cup Range(unit.result.files)
    /\ IsPrefix(unit.before.filesModified, context.filesModified)
    /\ ~HasDuplicates(context.filesModified)
    /\ context.commandsRun =
         IF unit.result.command # Absent
         THEN Append(unit.before.commandsRun, unit.result.command[1])
         ELSE unit.before.commandsRun

\* A command step that succeeds on a context that holds a command record
\* already.
C21_Witness ==
  /\ unit.op = "executeStep" /\ unit.result.success
  /\ unit.step.tool = "command" /\ unit.result.command # Absent
  /\ unit.before.commandsRun # <<>>
  /\ Len(context.commandsRun) = 2

\* C22 as stated: the step a retryWithFix call hands to the Executor has the
\* id of the failed step, the modifiedParams of the remediation object as its
\* params and the failed step's description with the suffix, and the call
\* leaves the failed step as it was.
C22_RetryStepCarriesModelParams ==
  (unit.op = "retryWithFix" /\ execCalls # <<>>) =>
    /\ execCalls[1].retry
    /\ execCalls[1].stepId = unit.step.stepId
    /\ execCalls[1].params = unit.resp
    /\ execCalls[1].description = "d (retry with fix)"
    /\ unit.after = unit.step

\* C22 as amended: the same, with the params being the remediation object's
\* modifiedParams when it carries them and the failed step's own params when
\* it carries none.
C22_RetryStepCarriesModelParamsOrOwn ==
  (unit.op = "retryWithFix" /\ execCalls # <<>>) =>
    /\ execCalls[1].retry
    /\ execCalls[1].stepId = unit.step.stepId
    /\ execCalls[1].tool = unit.step.tool
    /\ execCalls[1].params = IF unit.resp = "undefined" THEN unit.step.params
                             ELSE unit.resp
    /\ execCalls[1].description = "d (retry with fix)"
    /\ unit.after = unit.step

C22_Witness ==
  /\ unit.op = "retryWithFix" /\ unit.resp = "p2"
  /\ Len(execCalls) = 1 /\ execCalls[1].params = "p2"
  /\ unit.step.params = "p1" /\ unit.after.params = "p1"
  /\ unit.after.description = "d"

\* C23: one retryWithFix call makes at most one completion call and at most
\* one executeStep call, and when that executeStep call fails the call
\* returns its failure result.
C23_OneFixAttemptPerCall ==
  unit.op = "retryWithFix" =>
    /\ llmCalls.plan = 0 /\ llmCalls.fix <= 1
    /\ Len(execCalls) <= 1
    /\ \A c \in Range(execCalls) :
         /\ c.retry
         /\ unit.result.success = c.success
         /\ unit.result.error = c.error

\* The re-execution failed in another way than the first execution did.
C23_Witness ==
  /\ unit.op = "retryWithFix" /\ unit.resp = "p2"
  /\ llmCalls.fix = 1 /\ Len(execCalls) = 1
  /\ execCalls[1].toolOut = "throw" /\ ~unit.result.success
  /\ unit.result # unit.failed

\* The executeStep calls of the current run for step id: those of the loop and
\* those of retryWithFix.
PlanCallsOf(id) == {n \in 1 .. Len(execCalls) : execCalls[n].stepId = id /\ ~execCalls[n].retry}
RetryCallsOf(id) == {n \in 1 .. Len(execCalls) : execCalls[n].stepId = id /\ execCalls[n].retry}

\* C24: in a run, retryWithFix was called for a step only after the step's
\* execution by the loop had failed, the number of its calls for a step is at
\* most maxRetries and is what canRetry counts, and with maxRetries 0 there is
\* no retryWithFix call, no remediation completion and no re-execution.
C24_RemediationWithinRetryBudget ==
  runKind # "none" =>
    /\ \A id \in DOMAIN itCalls :
         /\ itCalls[id] <= maxRetries
         /\ MapGet(retryCount, id) = itCalls[id]
         /\ \E n \in PlanCallsOf(id) : ~execCalls[n].success
         /\ Cardinality(RetryCallsOf(id)) <= itCalls[id]
    /\ \A c \in Range(execCalls) : c.retry => c.stepId \in DOMAIN itCalls
    /\ maxRetries = 0 =>
         /\ itCalls = EmptyMap /\ llmCalls.fix = 0
         /\ \A c \in Range(execCalls) : ~c.retry

\* Two steps of one run failed and were each handed to retryWithFix.
C24_Witness ==
  /\ RunEnded /\ maxRetries = DefaultMaxRetries
  /\ Cardinality(DOMAIN itCalls) = 2
  /\ \E id \in DOMAIN itCalls : RetryCallsOf(id) # {}
  /\ \E id \in DOMAIN itCalls : RetryCallsOf(id) = {}

\* C25: the plan createPlan made of a planning completion has the steps of the
\* completion (tool, params, dependencies) in the completion's order, step k
\* having the index k in its id and no two steps the same id, and its
\* estimatedSteps is the number of its steps; the plan a preview returns is
\* this plan with every step pending.
C25_PlanKeepsModelOrder ==
  (runKind # "none" /\ llmCalls.planBody = "plan" /\ outcome.error # "Planning failed") =>
    /\ Len(plan.steps) = Len(llmCalls.planSteps)
    /\ plan.estimatedSteps = Len(plan.steps)
    /\ \A k \in 1 .. Len(plan.steps) :
         /\ plan.steps[k].tool = llmCalls.planSteps[k].tool
         /\ plan.steps[k].params = llmCalls.planSteps[k].params
         /\ plan.steps[k].dependencies = llmCalls.planSteps[k].dependencies
         /\ plan.steps[k].stepId[1] = k - 1
    /\ \A a, b \in 1 .. Len(plan.steps) :
         a # b => plan.steps[a].stepId # plan.steps[b].stepId
    /\ (config.previewMode /\ outcome.kind = "returned") =>
         /\ outcome.ret.plan = Some(plan)
         /\ \A k \in 1 .. Len(plan.steps) : plan.steps[k].status = "pending"

\* A previewed plan whose first step names the second as its dependency.
C25_Witness ==
  /\ runKind = "background" /\ config.previewMode /\ outcome.kind = "returned"
  /\ Len(plan.steps) = 2
  /\ plan.steps[1].dependencies = <<1>> /\ plan.steps[2].dependencies = <<>>

\* C26: every step of a run (of its Planner, Executor, Iterator or of the
\* Agent itself) leaves the log that the context held before it as a prefix
\* of the log the context holds after it.
C26_LogsAppendOnly ==
  [][pc # "idle" => IsPrefix(context.logs, context'.logs)]_vars

\* The log of a run that planned, executed, remediated and returned.
C26_Witness ==
  /\ RunEnded /\ outcome.kind = "returned" /\ Len(plan.steps) = 3
  /\ \A m \in {"Plan created", "Executing", "Attempting to fix failed step",
                "Fix strategy", "Step failed after retries", "Agent execution completed"} :
        \E l \in Range(context.logs) : l.msg = m
  /\ outcome.ret.logs = context.logs

\* What the CLI prints to say that the changes are applied.
AppliedReports == {"Changes applied!", "Changes applied successfully!"}

\* C27: once the user has answered yes, the apply request was sent and an
\* apply run of the task was started; and the CLI has reported the changes as
\* applied only when the apply run of the task has returned.
C27_YesAppliesThenReports ==
  /\ cli.answer = "yes" => runKind = "apply"
  /\ cli.said \in AppliedReports =>
       /\ runKind = "apply" /\ RunEnded /\ outcome.kind = "returned"
       /\ task.action = "Changes applied"

\* C28: when the CLI has seen the changes of a task applied and is done with
\* the prompt, the job queue holds a save-checkpoint job made of the apply
\* run's outcome: its filesModified, with its log or its summary.
C28_AppliedOutcomeEnqueued ==
  (/\ cli.stage = "done" /\ cli.said = "Changes applied successfully!"
   /\ outcome.ret.filesModified # <<>>) =>
    \E n \in 1 .. Len(jobs) :
      /\ jobs[n].type = "save-checkpoint"
      /\ jobs[n].filesModified = outcome.ret.filesModified
      /\ \/ jobs[n].answer.logs = outcome.ret.logs
         \/ jobs[n].answer.summary = "Changes applied successfully"

\* C30: no apply run of a task is under way, with a tool already called by
\* it, while the task's result is that of an apply run that has finished.
C30_PlanAppliedAtMostOnce ==
  (/\ runKind = "apply" /\ pc # "idle"
   /\ \E c \in Range(execCalls) : c.ran) =>
    task.result[1].summary # "Changes applied successfully"

\* C29: every run that was started ends: Agent.execute returns a result or
\* throws, when each of its pending calls comes back.
C29_RunTerminates ==
  (runKind # "none" /\ pc # "idle") ~>
    (pc = "idle" /\ outcome.kind \in {"returned", "thrown"})

\* A run of a three-step plan that the iteration ceiling ended.
C29_Witness ==
  /\ RunEnded /\ Len(plan.steps) = 3
  /\ outcome.kind = "thrown" /\ outcome.error = "Maximum iterations exceeded"
  /\ Len(execCalls) >= 3

\* C31: a run of the Agent starts only while no run of the task is in flight:
\* an apply request that meets a run still executing starts nothing.
C31_OneRunInFlight == [][pc' = "planning" => pc = "idle"]_vars

\* An apply run in the middle of its steps, started after an earlier apply of
\* the same task had come to its end.
C31_Witness ==
  /\ runKind = "apply" /\ pc = "step" /\ Len(execCalls) >= 1
  /\ task.status = "executing" /\ task.plan # Absent
  /\ task.result # Absent /\ task.result[1].summary = "Changes applied successfully"

\* C32: a failed task stays failed: no run of it is in flight whose end could
\* write the status, and no request, an apply request included, moves the
\* status away from failed.
C32_FailedIsTerminal ==
  /\ [](task.status = "failed" => pc = "idle")
  /\ [][task.status = "failed" => task'.status = "failed"]_vars

\* An apply run that threw: the task is failed and still holds the plan of its
\* preview, so that the status check alone turns an apply request down.
C32_Witness ==
  /\ task.status = "failed" /\ task.action = "Failed to apply changes"
  /\ task.plan # Absent /\ runKind = "apply" /\ pc = "idle"

\* C33: an executeStep call whose result is a failure leaves the context's
\* filesModified and commandsRun as they were, whatever metadata the result
\* carries, and adds to the logs only.
C33_FailureLeavesSideEffects ==
  (unit.op = "executeStep" /\ ~unit.result.success) =>
    /\ context.filesModified = unit.before.filesModified
    /\ context.commandsRun = unit.before.commandsRun
    /\ IsPrefix(unit.before.logs, context.logs)
    /\ Len(context.logs) > Len(unit.before.logs)

\* A command that ran and failed, its result carrying the command line, on a
\* context that holds a file and a command record of earlier steps.
C33_Witness ==
  /\ unit.op = "executeStep" /\ ~unit.result.success
  /\ unit.step.tool = "command" /\ unit.result.command # Absent
  /\ unit.before.commandsRun # <<>> /\ unit.before.filesModified # <<>>
  /\ execCalls[1].ran

\* The ids of the plan's steps that have the status, in plan order.
IdsWithStatus(status) ==
  LET hit == SelectSeq(plan.steps, LAMBDA st : st.status = status)
  IN [k \in 1 .. Len(hit) |-> hit[k].stepId]

\* C34: at every point of a run the two lists are disjoint, and each is the
\* list of the ids of the steps with status completed, respectively failed,
\* in plan order and without repetition.
C34_ListsMatchStatuses ==
  (runKind # "none") =>
    /\ Range(completedSteps) \cap Range(failedSteps) = {}
    /\ ~HasDuplicates(completedSteps) /\ ~HasDuplicates(failedSteps)
    /\ completedSteps = IdsWithStatus("completed")
    /\ failedSteps = IdsWithStatus("failed")

\* A run in the middle of its plan: one step completed, a later one failed,
\* the third in progress.
C34_Witness ==
  /\ runKind = "background" /\ pc = "step" /\ i = 2
  /\ Len(completedSteps) = 1 /\ Len(failedSteps) = 1
  /\ plan.steps[1].status = "completed" /\ plan.steps[2].status = "failed"
  /\ plan.steps[3].status = "in-progress"

\* C35: a retryWithFix call raises the retry count of its step by one,
\* whatever becomes of the remediation, and leaves the count of every other
\* step id as it was.
C35_RetryRaisesOwnCountByOne ==
  [][(unit'.op = "retryWithFix" /\ itCalls' # itCalls) =>
       \A id \in UnitStepIds :
         MapGet(retryCount', id) =
           MapGet(retryCount, id) + (IF id = unit'.step.stepId THEN 1 ELSE 0)]_vars

\* The third call for one step, its completion call having failed, while the
\* other step id has a count of its own.
C35_Witness ==
  /\ unit.op = "retryWithFix" /\ unit.resp = "throw"
  /\ unit.step.stepId = generateStepId(0, 1)
  /\ MapGet(retryCount, generateStepId(0, 1)) = 3
  /\ MapGet(retryCount, generateStepId(1, 1)) = 1

\* The jobs of the queue that have the status.
JobsWithStatus(status) ==
  {k \in 1 .. Len(queue.queue) : queue.queue[k].status = status}

\* C36: at most one job has status processing, and at most one handler call
\* is awaited, however the processNext calls of enqueue, of the timer and of
\* the setImmediate callbacks fall.
C36_OneJobAtATime ==
  /\ Cardinality(JobsWithStatus("processing")) <= 1
  /\ Cardinality(queue.running) <= 1

\* A job in its handler while another job is pending and a setImmediate
\* callback of an earlier end is still to run.
C36_Witness ==
  /\ Cardinality(JobsWithStatus("processing")) = 1
  /\ JobsWithStatus("pending") # {}
  /\ queue.immediates >= 1 /\ queue.processing

\* The ids of the jobs enqueued so far.
JobIds == DOMAIN queue.seen

C38_EveryJobEnds ==
  \A id \in 1 .. MaxJobs :
    (id \in JobIds) ~> (id \in JobIds /\ queue.seen[id] \in {"completed", "failed"})

\* The last job has ended after it had to wait behind a job that failed for
\* good.
C38_Witness ==
  /\ queue.nextId = MaxJobs + 1
  /\ \A id \in JobIds : queue.seen[id] \in {"completed", "failed"}
  /\ queue.seen[1] = "failed" /\ queue.seen[MaxJobs] = "completed"
  /\ MapGet(queue.picks, 1) = DefaultJobMaxRetries

\* C39: whenever processNext takes a job, no job enqueued before it is
\* pending at that moment.
C39_PickedInEnqueueOrder ==
  [][\A id \in 1 .. MaxJobs :
       MapGet(queue'.picks, id) > MapGet(queue.picks, id) =>
         \A k \in 1 .. Len(queue.queue) :
           queue.queue[k].id < id => queue.queue[k].status # "pending"]_vars

\* The first job has failed once and is in its handler again, while the job
\* enqueued after it has not been taken yet.
C39_Witness ==
  /\ Len(queue.queue) = 2
  /\ queue.queue[1].status = "processing" /\ queue.queue[1].retries >= 1
  /\ queue.queue[2].status = "pending" /\ MapGet(queue.picks, queue.queue[2].id) = 0

====
